---- MODULE Spec2Model ----
(***************************************************************************)
(* Hexpert backend (src/src/backend/server.js): the per-socket audio       *)
(* buffering and dispatch pipeline, the transcription round                *)
(* (transcribeAudio -> processQuestion -> generateTTSAudio) and the        *)
(* session registry (clientAudioBuffers, clientProcessingFlags).           *)
(*                                                                         *)
(* Node runs every handler and every continuation of an async function to  *)
(* its next await without interleaving, so one action is one such run.     *)
(***************************************************************************)
EXTENDS Integers, Sequences, FiniteSets, TLC

\* ------------------------------------------------------------------ bounds
\* Chunk arrivals over all sockets.
MaxArrive == 41
\* Dispatches (calls of transcribeAudio) over all sockets.
MaxRounds == 2
\* Chunks a socket's handler takes after the socket's disconnect.
MaxLate == 1
\* Malformed audio-stream payloads over all sockets.
MaxMalformed == 1
\* fs calls that throw, over all sockets.
MaxFsFaults == 1

\* Socket ids; socket.io gives every connection a fresh id.
Sessions == {"s1", "s2"}

\* What a client sends, as the byte length of its i-th chunk: "voiced" sends
\* non-empty chunks only; "gaps" alternates empty and non-empty chunks for
\* its first batch and sends empty chunks from then on.
StreamKinds == {"voiced", "gaps"}

ChunkLen(kind, i) ==
    CASE kind = "voiced" -> 1
      [] OTHER -> IF i <= 20 THEN i % 2 ELSE 0

\* The i-th chunk a socket sends, Buffer.from(audioData); id is its arrival
\* index on that socket, length its byte length.
Chunk(kind, i) == [id |-> i, length |-> ChunkLen(kind, i)]

\* What the speech-to-text service may recognise (characters).
Texts == { <<>>, <<" ">>, <<" ", "W", "i", "n">> }

\* ------------------------------------------------------------------ Map
MapSet(m, k, v) == [x \in (DOMAIN m) \cup {k} |-> IF x = k THEN v ELSE m[x]]

MapDelete(m, k) == [x \in (DOMAIN m) \ {k} |-> m[x]]

MapHas(m, k) == k \in DOMAIN m

EmptyMap == [x \in {} |-> TRUE]

\* ------------------------------------------------------------------ strings
IsWhiteSpace(c) == c \in {" ", "\t", "\n"}

RECURSIVE TrimStart(_)
TrimStart(t) ==
    IF t = <<>> THEN <<>>
    ELSE IF IsWhiteSpace(Head(t)) THEN TrimStart(Tail(t)) ELSE t

RECURSIVE TrimEnd(_)
TrimEnd(t) ==
    IF t = <<>> THEN <<>>
    ELSE IF IsWhiteSpace(t[Len(t)]) THEN TrimEnd(SubSeq(t, 1, Len(t) - 1)) ELSE t

\* String.prototype.trim
Trim(t) == TrimEnd(TrimStart(t))

UpperCase == << "A", "B", "C", "D", "E", "F", "G", "H", "I", "J", "K", "L", "M",
               "N", "O", "P", "Q", "R", "S", "T", "U", "V", "W", "X", "Y", "Z" >>
LowerCase == << "a", "b", "c", "d", "e", "f", "g", "h", "i", "j", "k", "l", "m",
               "n", "o", "p", "q", "r", "s", "t", "u", "v", "w", "x", "y", "z" >>

LowerOf(c) ==
    IF \E i \in 1..Len(UpperCase) : UpperCase[i] = c
    THEN LowerCase[CHOOSE i \in 1..Len(UpperCase) : UpperCase[i] = c]
    ELSE c

\* String.prototype.toLowerCase
ToLowerCase(t) == [i \in 1..Len(t) |-> LowerOf(t[i])]

\* String.prototype.includes
Includes(t, w) ==
    \E i \in 1..(Len(t) + 1) :
        /\ i + Len(w) - 1 <= Len(t)
        /\ SubSeq(t, i, i + Len(w) - 1) = w

\* ------------------------------------------------------------------ responder
\* MunchkinExpert of src/games/munchkin.js, the module server.js requires.
KwCurse == <<"c", "u", "r", "s", "e">>
KwCurses == <<"c", "u", "r", "s", "e", "s">>
KwCombat == <<"c", "o", "m", "b", "a", "t">>
KwFight == <<"f", "i", "g", "h", "t">>
KwBattle == <<"b", "a", "t", "t", "l", "e">>
KwLevel == <<"l", "e", "v", "e", "l">>
KwWin == <<"w", "i", "n">>
KwSetup == <<"s", "e", "t", "u", "p">>
KwStart == <<"s", "t", "a", "r", "t">>

explainCurseRules == <<"Curse cards can be played on any player at any time, ...">>

explainCombatRules == <<"In combat, add your Level plus your equipment bonuses ...">>

explainLevelingAndWinning == <<"You gain levels primarily by killing monsters ...">>

explainGameSetup == <<"Shuffle the Door and Treasure decks separately. ...">>

\* Variant: the default message quotes the lower-cased question.
getDefaultResponseLowerCased(question) ==
    <<"I heard your question about \"">> \o ToLowerCase(question)
        \o <<"\" but I'm not sure how to answer that specific Munchkin rule question yet. ...">>

getDefaultResponse(question) ==
    <<"I heard your question about \"">> \o question
        \o <<"\" but I'm not sure how to answer that specific Munchkin rule question yet. ...">>

\* Variant: the keyword-only module does not know the keyword 'battle'.
processQuestionKeywordsNoBattle(question) ==
    LET lowerQuestion == ToLowerCase(question) IN
    IF Includes(lowerQuestion, KwCurse) \/ Includes(lowerQuestion, KwCurses)
    THEN explainCurseRules
    ELSE IF Includes(lowerQuestion, KwCombat) \/ Includes(lowerQuestion, KwFight)
    THEN explainCombatRules
    ELSE IF Includes(lowerQuestion, KwLevel) \/ Includes(lowerQuestion, KwWin)
    THEN explainLevelingAndWinning
    ELSE IF Includes(lowerQuestion, KwSetup) \/ Includes(lowerQuestion, KwStart)
    THEN explainGameSetup
    ELSE getDefaultResponse(question)

processQuestionKeywords(question) ==
    LET lowerQuestion == ToLowerCase(question) IN
    IF Includes(lowerQuestion, KwCurse) \/ Includes(lowerQuestion, KwCurses)
    THEN explainCurseRules
    ELSE IF \/ Includes(lowerQuestion, KwCombat)
            \/ Includes(lowerQuestion, KwFight)
            \/ Includes(lowerQuestion, KwBattle)
    THEN explainCombatRules
    ELSE IF Includes(lowerQuestion, KwLevel) \/ Includes(lowerQuestion, KwWin)
    THEN explainLevelingAndWinning
    ELSE IF Includes(lowerQuestion, KwSetup) \/ Includes(lowerQuestion, KwStart)
    THEN explainGameSetup
    ELSE getDefaultResponse(question)

\* MunchkinExpert of the generative revision (src/unnamed/part_000).
\* Variant: the combat keywords are tested before 'curse'.
processQuestionFallbackCombatFirst(question) ==
    LET lowerQuestion == ToLowerCase(question) IN
    IF \/ Includes(lowerQuestion, KwCombat)
       \/ Includes(lowerQuestion, KwFight)
       \/ Includes(lowerQuestion, KwBattle)
    THEN explainCombatRules
    ELSE IF Includes(lowerQuestion, KwCurse) \/ Includes(lowerQuestion, KwCurses)
    THEN explainCurseRules
    ELSE IF Includes(lowerQuestion, KwLevel) \/ Includes(lowerQuestion, KwWin)
    THEN explainLevelingAndWinning
    ELSE IF Includes(lowerQuestion, KwSetup) \/ Includes(lowerQuestion, KwStart)
    THEN explainGameSetup
    ELSE getDefaultResponse(question)

processQuestionFallback(question) ==
    LET lowerQuestion == ToLowerCase(question) IN
    IF Includes(lowerQuestion, KwCurse) \/ Includes(lowerQuestion, KwCurses)
    THEN explainCurseRules
    ELSE IF \/ Includes(lowerQuestion, KwCombat)
            \/ Includes(lowerQuestion, KwFight)
            \/ Includes(lowerQuestion, KwBattle)
    THEN explainCombatRules
    ELSE IF Includes(lowerQuestion, KwLevel) \/ Includes(lowerQuestion, KwWin)
    THEN explainLevelingAndWinning
    ELSE IF Includes(lowerQuestion, KwSetup) \/ Includes(lowerQuestion, KwStart)
    THEN explainGameSetup
    ELSE getDefaultResponse(question)

\* Variant: the catch of processQuestion answers with the default message.
CatchGptDefault(question) == getDefaultResponse(question)

\* catch (error) of processQuestion: return this.processQuestionFallback(question)
CatchGpt(question) == processQuestionFallback(question)

\* response.choices[0].message.content.trim()
GptText(content) == Trim(content)

\* The words questions are made of.
Words ==
    { <<"C", "u", "r", "s", "e">>, <<"c", "u", "r", "s", "e", "s">>,
      <<"c", "o", "m", "b", "a", "t">>, <<"F", "I", "G", "H", "T">>,
      <<"b", "a", "t", "t", "l", "e">>, <<"l", "e", "v", "e", "l">>,
      <<"W", "i", "n", "t", "e", "r">>, <<"s", "e", "t", "u", "p">>,
      <<"r", "e", "S", "t", "a", "r", "t">>, <<"W", "h", "o", "?">> }

\* The questions put to the responder: up to MaxWords words.
MaxWords == 2

RECURSIVE QuestionsOf(_)
QuestionsOf(n) ==
    IF n = 0 THEN {<<>>}
    ELSE QuestionsOf(n - 1) \cup
         {q \o (IF q = <<>> THEN <<>> ELSE <<" ">>) \o w : q \in QuestionsOf(n - 1), w \in Words}

Questions == QuestionsOf(MaxWords)

\* What the text-generation service may answer (characters).
Contents == { <<"O", "k">>, <<" ", "O", "k", "\n">>, <<" ">> }

\* ------------------------------------------------------------------ state
VARIABLES
    status,                 \* socket s: "new", "connected", "disconnected"; "crashed"
                            \* once the process has exited
    stream,                 \* what the client of socket s sends
    clientAudioBuffers,     \* Map socket.id -> array of chunks
    clientProcessingFlags,  \* Map socket.id -> boolean
    rounds,                 \* calls of transcribeAudio suspended at an await
    ttsTasks,               \* calls of generateTTSAudio suspended at an await
    files,                  \* the temporary files on disk: path -> content
    arrived,                \* audio-stream events handled per socket
    dropped,                \* ids of the chunks that arrived while the flag was true
    dispatched,             \* per socket, the batches handed to transcribeAudio
    log,                    \* per socket, external calls, emits and round ends
    ended,                  \* per socket, the rounds that reached the finally block
    sinceEnd,               \* per socket, chunks arrived since its last round end
    expertCall              \* one call of MunchkinExpert.processQuestion, taken alone

vars == <<status, stream, clientAudioBuffers, clientProcessingFlags, rounds,
          ttsTasks, files, arrived, dropped, dispatched, log, ended, sinceEnd,
          expertCall>>

FlushThreshold == 20

MsgTranscriptionFailed == <<"Transcription failed">>
MsgQuestionFailed == <<"Failed to process your question">>
MsgCleanupFailed == "Failed to clean up temporary file"
MsgTtsError == "TTS generation error"

\* The error of a rejected external call and of a failing fs call.
ErrRejected == <<>>
ErrWrite == <<"writeFileSync">>
ErrRead == <<"readFileSync">>
ErrUnlink == <<"unlinkSync">>

AudioPath(s) == <<"temp_audio", s>>
TtsPath(s) == <<"temp_tts", s>>

RECURSIVE SumOver(_, _)
SumOver(f, S) ==
    IF S = {} THEN 0
    ELSE LET x == CHOOSE y \in S : TRUE IN f[x] + SumOver(f, S \ {x})

TotalArrived == SumOver(arrived, Sessions)
TotalDispatched == SumOver([s \in Sessions |-> Len(dispatched[s])], Sessions)

\* The flag of socket s is set and true.
BusyFlag(s) == MapHas(clientProcessingFlags, s) /\ clientProcessingFlags[s]

\* One line of the log of socket s.
Entry(kind, name, n, text, answer, s) ==
    [kind |-> kind, name |-> name, round |-> n, text |-> text, answer |-> answer,
     live |-> status[s] = "connected"]

EmitError(n, msg, s) == Entry("emit", "error", n, msg, <<>>, s)
EmitTranscription(n, text, s) == Entry("emit", "transcription", n, text, <<>>, s)
EmitAiResponse(n, question, answer, s) == Entry("emit", "ai-response", n, question, answer, s)
EmitTtsAudio(n, audio, s) == Entry("emit", "tts-audio", n, <<>>, audio, s)
Call(name, n, text, s) == Entry("call", name, n, text, <<>>, s)
Return(name, n, text, s) == Entry("return", name, n, text, <<>>, s)
RoundEnd(outcome, n, s) == Entry("end", outcome, n, <<>>, <<>>, s)
\* console.error(msg, error)
Console(msg, n, error, s) == Entry("console", msg, n, error, <<>>, s)

\* No call of MunchkinExpert.processQuestion is being looked at.
NoCall == [pc |-> "idle", revision |-> "", question |-> <<>>, content |-> <<>>,
           error |-> "", result |-> <<>>]

Init ==
    /\ status = [s \in Sessions |-> "new"]
    /\ stream = [s \in Sessions |-> "voiced"]
    /\ clientAudioBuffers = EmptyMap
    /\ clientProcessingFlags = EmptyMap
    /\ rounds = {}
    /\ ttsTasks = {}
    /\ files = EmptyMap
    /\ arrived = [s \in Sessions |-> 0]
    /\ dropped = [s \in Sessions |-> {}]
    /\ dispatched = [s \in Sessions |-> <<>>]
    /\ log = [s \in Sessions |-> <<>>]
    /\ ended = [s \in Sessions |-> 0]
    /\ sinceEnd = [s \in Sessions |-> 0]
    /\ expertCall = NoCall

\* io.on('connection'): the registry entries of the new socket.
Connect(s) ==
    /\ status[s] = "new"
    /\ status' = [status EXCEPT ![s] = "connected"]
    /\ \E k \in StreamKinds : stream' = [stream EXCEPT ![s] = k]
    /\ clientAudioBuffers' = MapSet(clientAudioBuffers, s, <<>>)
    /\ clientProcessingFlags' = MapSet(clientProcessingFlags, s, FALSE)
    /\ UNCHANGED <<expertCall, rounds, ttsTasks, files, arrived, dropped, dispatched, log,
                   ended, sinceEnd>>

\* Variant: the disconnect handler leaves the buffer in the map.
DiscardBufferKept(buffers, s) == buffers

\* clientAudioBuffers.delete(socket.id)
DiscardBuffer(buffers, s) == MapDelete(buffers, s)

\* socket.on('disconnect')
Disconnect(s) ==
    /\ status[s] = "connected"
    /\ status' = [status EXCEPT ![s] = "disconnected"]
    /\ clientAudioBuffers' = DiscardBuffer(clientAudioBuffers, s)
    /\ clientProcessingFlags' = MapDelete(clientProcessingFlags, s)
    /\ UNCHANGED <<expertCall, stream, rounds, ttsTasks, files, arrived, dropped, dispatched,
                   log, ended, sinceEnd>>

\* ------------------------------------------------------------------ audio-stream
\* Variant: the guard never sees a round in progress.
IsProcessingIgnored(flags, s) == FALSE

\* clientProcessingFlags.get(socket.id) || false
IsProcessing(flags, s) == IF MapHas(flags, s) THEN flags[s] ELSE FALSE

\* clientAudioBuffers.get(socket.id) || []
GetAudioBuffer(buffers, s) == IF MapHas(buffers, s) THEN buffers[s] ELSE <<>>

\* Variant: the chunk is put in front of the buffer.
PushChunkFront(audioBuffer, audioChunk) == <<audioChunk>> \o audioBuffer

\* Variant: an empty chunk is not appended.
PushChunkNonEmpty(audioBuffer, audioChunk) ==
    IF audioChunk.length > 0 THEN Append(audioBuffer, audioChunk) ELSE audioBuffer

\* audioBuffer.push(audioChunk)
PushChunk(audioBuffer, audioChunk) == Append(audioBuffer, audioChunk)

\* Variant: the threshold test is strict.
ShouldFlushOffByOne(audioBuffer) == Len(audioBuffer) > FlushThreshold

\* audioBuffer.length >= 20
ShouldFlush(audioBuffer) == Len(audioBuffer) >= FlushThreshold

\* Variant: the copy misses the last chunk.
BufferCopyWithoutLast(audioBuffer) == SubSeq(audioBuffer, 1, Len(audioBuffer) - 1)

\* [...audioBuffer]
BufferCopy(audioBuffer) == audioBuffer

\* Variant: the live buffer is not reset at a flush.
ClearedBufferKept(audioBuffer) == audioBuffer

\* clientAudioBuffers.set(socket.id, [])
ClearedBuffer(audioBuffer) == <<>>

\* Variant: the batch is not filtered.
ValidBuffersUnfiltered(audioBuffer) == audioBuffer

\* audioBuffer.filter(chunk => Buffer.isBuffer(chunk) && chunk.length > 0)
IsValidChunk(chunk) == chunk.length > 0
ValidBuffers(audioBuffer) == SelectSeq(audioBuffer, IsValidChunk)

\* The bytes of a chunk, each named after the chunk it came from.
Bytes(chunk) == [j \in 1..chunk.length |-> chunk.id]

\* Buffer.concat
RECURSIVE BufferConcat(_)
BufferConcat(list) ==
    IF list = <<>> THEN <<>> ELSE Bytes(Head(list)) \o BufferConcat(Tail(list))

\* Variant: the flag is not set when a round starts.
SetProcessingSkipped(flags, s) == flags

\* clientProcessingFlags.set(socket.id, true)
SetProcessing(flags, s) == MapSet(flags, s, TRUE)

\* Variant: the catch block only logs to the console.
CatchTranscriptionSilent(n, s) == <<>>

\* catch (error) of transcribeAudio
CatchTranscription(n, s) == <<EmitError(n, MsgTranscriptionFailed, s)>>

\* Variant: the flag is not cleared when a round ends.
FinallyFlagsKept(flags, s) == flags

\* finally of transcribeAudio: clientProcessingFlags.set(socket.id, false)
FinallyFlags(flags, s) == MapSet(flags, s, FALSE)

\* Variant: the finally block does not delete the file.
CleanupFileSkipped(fs, path) == fs

\* finally of transcribeAudio: existsSync / unlinkSync
CleanupFile(fs, path) == IF MapHas(fs, path) THEN MapDelete(fs, path) ELSE fs

\* The end of round n of socket s: catch (when entered) and finally; unlinkOk
\* is whether unlinkSync, when it is called, succeeds.
Finally(s, n, outcome, entries, flags, fs, unlinkOk) ==
    /\ unlinkOk \/ MapHas(fs, AudioPath(s))
    /\ clientProcessingFlags' = FinallyFlags(flags, s)
    /\ files' = IF unlinkOk THEN CleanupFile(fs, AudioPath(s)) ELSE fs
    /\ log' = [log EXCEPT ![s] = @ \o entries
                   \o (IF unlinkOk THEN <<>> ELSE <<Console(MsgCleanupFailed, n, ErrUnlink, s)>>)
                   \o <<RoundEnd(outcome, n, s)>>]
    /\ ended' = [ended EXCEPT ![s] = @ + 1]
    /\ sinceEnd' = [sinceEnd EXCEPT ![s] = 0]

\* transcribeAudio(bufferCopy, socket) up to its first await.
TranscribeAudio(s, audioBuffer) ==
    LET n == Len(dispatched[s]) + 1
        busyFlags == SetProcessing(clientProcessingFlags, s)
        validBuffers == ValidBuffers(audioBuffer)
    IN
    /\ dispatched' = [dispatched EXCEPT ![s] = Append(@, audioBuffer)]
    /\ IF Len(validBuffers) = 0
       THEN \* throw new Error('No valid audio data to process')
            /\ Finally(s, n, "no_audio", CatchTranscription(n, s), busyFlags, files, TRUE)
            /\ UNCHANGED rounds
       ELSE /\ clientProcessingFlags' = busyFlags
            /\ files' = MapSet(files, AudioPath(s), BufferConcat(validBuffers))
            /\ log' = [log EXCEPT ![s] = Append(@, Call("whisper", n, <<>>, s))]
            /\ rounds' = rounds \cup {[sid |-> s, n |-> n, pc |-> "whisper", text |-> <<>>]}
            /\ sinceEnd' = [sinceEnd EXCEPT ![s] = @ + 1]
            /\ UNCHANGED ended

\* The body of socket.on('audio-stream') for the next chunk of socket s.
AudioStreamHandler(s) ==
    /\ TotalArrived < MaxArrive
    /\ LET i == arrived[s] + 1
           audioChunk == Chunk(stream[s], i)
       IN
       /\ arrived' = [arrived EXCEPT ![s] = i]
       /\ dropped' = [dropped EXCEPT ![s] = IF BusyFlag(s) THEN @ \cup {i} ELSE @]
       /\ IF IsProcessing(clientProcessingFlags, s)
          THEN /\ sinceEnd' = [sinceEnd EXCEPT ![s] = @ + 1]
               /\ UNCHANGED <<clientAudioBuffers, clientProcessingFlags, rounds,
                              files, dispatched, log, ended>>
          ELSE LET audioBuffer == PushChunk(GetAudioBuffer(clientAudioBuffers, s), audioChunk)
               IN
               /\ IF ShouldFlush(audioBuffer)
                  THEN /\ TotalDispatched < MaxRounds
                       /\ clientAudioBuffers' =
                              MapSet(clientAudioBuffers, s, ClearedBuffer(audioBuffer))
                       /\ TranscribeAudio(s, BufferCopy(audioBuffer))
                  ELSE /\ clientAudioBuffers' = MapSet(clientAudioBuffers, s, audioBuffer)
                       /\ sinceEnd' = [sinceEnd EXCEPT ![s] = @ + 1]
                       /\ UNCHANGED <<clientProcessingFlags, rounds, files, dispatched,
                                      log, ended>>
    /\ UNCHANGED <<expertCall, status, stream, ttsTasks>>

\* An audio-stream event of a connected socket.
AudioStream(s) ==
    /\ status[s] = "connected"
    /\ AudioStreamHandler(s)

\* ------------------------------------------------------------------ the round
\* Variant: the text is tested without trim().
HasTextUntrimmed(text) == text # <<>>

\* transcription.text.trim()
HasText(text) == Trim(text) # <<>>

\* Variant: processQuestion is not awaited, the finally block runs as soon
\* as the question is handed over.
AwaitQuestionNotAwaited(flags, s) == MapSet(flags, s, FALSE)

\* await processQuestion(...) inside the try: the finally block has not run.
AwaitQuestion(flags, s) == flags

\* The speech-to-text call resolves with text.
TranscriptionReturns(r, text, unlinkOk) ==
    /\ r \in rounds
    /\ r.pc = "whisper"
    /\ IF HasText(text)
       THEN \* emit 'transcription', then processQuestion up to its await
            /\ unlinkOk
            /\ rounds' = (rounds \ {r}) \cup {[r EXCEPT !.pc = "expert", !.text = text]}
            /\ log' = [log EXCEPT ![r.sid] = @ \o
                          << Return("whisper", r.n, text, r.sid),
                             EmitTranscription(r.n, text, r.sid),
                             Call("expert", r.n, text, r.sid) >>]
            /\ clientProcessingFlags' = AwaitQuestion(clientProcessingFlags, r.sid)
            /\ UNCHANGED <<files, ended, sinceEnd>>
       ELSE /\ rounds' = rounds \ {r}
            /\ Finally(r.sid, r.n, "blank", <<Return("whisper", r.n, text, r.sid)>>,
                       clientProcessingFlags, files, unlinkOk)
    /\ UNCHANGED <<expertCall, status, stream, clientAudioBuffers, ttsTasks, arrived, dropped,
                   dispatched>>

\* The speech-to-text call rejects.
TranscriptionFails(r, unlinkOk) ==
    /\ r \in rounds
    /\ r.pc = "whisper"
    /\ rounds' = rounds \ {r}
    /\ Finally(r.sid, r.n, "stt_failed", CatchTranscription(r.n, r.sid),
               clientProcessingFlags, files, unlinkOk)
    /\ UNCHANGED <<expertCall, status, stream, clientAudioBuffers, ttsTasks, arrived, dropped,
                   dispatched>>

\* Variant: 'ai-response' carries the trimmed question.
AnswerEntriesTrimmed(n, question, response, s) ==
    << EmitAiResponse(n, Trim(question), response, s), Call("speech", n, response, s) >>

\* Variant: generateTTSAudio is called before 'ai-response' is emitted.
AnswerEntriesTtsFirst(n, question, response, s) ==
    << Call("speech", n, response, s), EmitAiResponse(n, question, response, s) >>

\* processQuestion after its await: emit 'ai-response', then generateTTSAudio.
AnswerEntries(n, question, response, s) ==
    << EmitAiResponse(n, question, response, s), Call("speech", n, response, s) >>

\* munchkinExpert.processQuestion resolves: 'ai-response', the detached
\* generateTTSAudio up to its first await, then the finally of transcribeAudio.
ExpertReturns(r, unlinkOk) ==
    /\ r \in rounds
    /\ r.pc = "expert"
    /\ LET response == processQuestionKeywords(r.text) IN
       /\ rounds' = rounds \ {r}
       /\ ttsTasks' = ttsTasks \cup
              {[sid |-> r.sid, n |-> r.n, pc |-> "speech", text |-> response]}
       /\ Finally(r.sid, r.n, "answered", AnswerEntries(r.n, r.text, response, r.sid),
                  clientProcessingFlags, files, unlinkOk)
    /\ UNCHANGED <<expertCall, status, stream, clientAudioBuffers, arrived, dropped, dispatched>>

\* Variant: the catch of processQuestion throws again, into the catch of
\* transcribeAudio.
CatchQuestionRethrows(n, s) ==
    <<EmitError(n, MsgQuestionFailed, s), EmitError(n, MsgTranscriptionFailed, s)>>

\* catch (error) of processQuestion
CatchQuestion(n, s) == <<EmitError(n, MsgQuestionFailed, s)>>

\* munchkinExpert.processQuestion rejects.
ExpertThrows(r, unlinkOk) ==
    /\ r \in rounds
    /\ r.pc = "expert"
    /\ rounds' = rounds \ {r}
    /\ Finally(r.sid, r.n, "expert_failed", CatchQuestion(r.n, r.sid),
               clientProcessingFlags, files, unlinkOk)
    /\ UNCHANGED <<expertCall, status, stream, clientAudioBuffers, ttsTasks, arrived, dropped,
                   dispatched>>

\* ------------------------------------------------------------------ speech synthesis
\* Variant: the catch of generateTTSAudio also notifies the socket.
CatchTtsNotifies(n, error, s) ==
    <<EmitError(n, MsgTtsError, s), Console(MsgTtsError, n, error, s)>>

\* catch (error) of generateTTSAudio: console only.
CatchTts(n, error, s) == <<Console(MsgTtsError, n, error, s)>>

\* openai.audio.speech.create resolves: generateTTSAudio awaits mp3.arrayBuffer().
SpeechReturns(t) ==
    /\ t \in ttsTasks
    /\ t.pc = "speech"
    /\ ttsTasks' = (ttsTasks \ {t}) \cup {[t EXCEPT !.pc = "body"]}
    /\ UNCHANGED <<expertCall, status, stream, clientAudioBuffers, clientProcessingFlags, rounds,
                   files, arrived, dropped, dispatched, log, ended, sinceEnd>>

\* openai.audio.speech.create rejects: catch of generateTTSAudio, console only.
SpeechFails(t) ==
    /\ t \in ttsTasks
    /\ t.pc = "speech"
    /\ ttsTasks' = ttsTasks \ {t}
    /\ log' = [log EXCEPT ![t.sid] = @ \o CatchTts(t.n, ErrRejected, t.sid)]
    /\ UNCHANGED <<expertCall, status, stream, clientAudioBuffers, clientProcessingFlags, rounds,
                   files, arrived, dropped, dispatched, ended, sinceEnd>>

\* mp3.arrayBuffer() resolves: writeFileSync, readFileSync, emit 'tts-audio',
\* unlinkSync.
BodyReturns(t) ==
    /\ t \in ttsTasks
    /\ t.pc = "body"
    /\ ttsTasks' = ttsTasks \ {t}
    /\ LET written == MapSet(files, TtsPath(t.sid), t.text)
           audioData == written[TtsPath(t.sid)]
       IN
       /\ log' = [log EXCEPT ![t.sid] = Append(@, EmitTtsAudio(t.n, audioData, t.sid))]
       /\ files' = MapDelete(written, TtsPath(t.sid))
    /\ UNCHANGED <<expertCall, status, stream, clientAudioBuffers, clientProcessingFlags, rounds,
                   arrived, dropped, dispatched, ended, sinceEnd>>

\* mp3.arrayBuffer() rejects: catch of generateTTSAudio, console only.
BodyFails(t) ==
    /\ t \in ttsTasks
    /\ t.pc = "body"
    /\ ttsTasks' = ttsTasks \ {t}
    /\ log' = [log EXCEPT ![t.sid] = @ \o CatchTts(t.n, ErrRejected, t.sid)]
    /\ UNCHANGED <<expertCall, status, stream, clientAudioBuffers, clientProcessingFlags, rounds,
                   files, arrived, dropped, dispatched, ended, sinceEnd>>

\* The fs calls of generateTTSAudio, in program order.
FsSteps == {"write", "read", "unlink"}

\* The fs faults reported on the console so far.
FsFaults ==
    SumOver([s \in Sessions |->
                Cardinality({j \in 1..Len(log[s]) :
                    /\ log[s][j].kind = "console"
                    /\ log[s][j].text \in {ErrWrite, ErrRead, ErrUnlink}})],
            Sessions)

\* mp3.arrayBuffer() resolves and one of writeFileSync, readFileSync and
\* unlinkSync throws: the calls before it have run, catch logs to the console.
BodyFsFails(t, step) ==
    /\ t \in ttsTasks
    /\ t.pc = "body"
    /\ FsFaults < MaxFsFaults
    /\ ttsTasks' = ttsTasks \ {t}
    /\ LET written == MapSet(files, TtsPath(t.sid), t.text)
           audioData == written[TtsPath(t.sid)]
       IN
       CASE step = "write" ->
                /\ files' = files
                /\ log' = [log EXCEPT ![t.sid] = @ \o CatchTts(t.n, ErrWrite, t.sid)]
         [] step = "read" ->
                /\ files' = written
                /\ log' = [log EXCEPT ![t.sid] = @ \o CatchTts(t.n, ErrRead, t.sid)]
         [] OTHER ->
                /\ files' = written
                /\ log' = [log EXCEPT ![t.sid] = @
                               \o <<EmitTtsAudio(t.n, audioData, t.sid)>>
                               \o CatchTts(t.n, ErrUnlink, t.sid)]
    /\ UNCHANGED <<expertCall, status, stream, clientAudioBuffers, clientProcessingFlags, rounds,
                   arrived, dropped, dispatched, ended, sinceEnd>>

\* ------------------------------------------------------------------ specification
Next ==
    \/ \E s \in Sessions : Connect(s)
    \/ \E s \in Sessions : Disconnect(s)
    \/ \E s \in Sessions : AudioStream(s)
    \/ \E r \in rounds : \E text \in Texts : TranscriptionReturns(r, text, TRUE)
    \/ \E r \in rounds : TranscriptionFails(r, TRUE)
    \/ \E r \in rounds : ExpertReturns(r, TRUE)
    \/ \E r \in rounds : ExpertThrows(r, TRUE)
    \/ \E t \in ttsTasks : SpeechReturns(t)
    \/ \E t \in ttsTasks : SpeechFails(t)
    \/ \E t \in ttsTasks : BodyReturns(t)
    \/ \E t \in ttsTasks : BodyFails(t)

Spec == Init /\ [][Next]_vars

\* An audio-stream event that reaches the handler of a socket whose
\* 'disconnect' handler has already run.
LateAudioStream(s) ==
    /\ status[s] = "disconnected"
    /\ Len(GetAudioBuffer(clientAudioBuffers, s)) < MaxLate
    /\ AudioStreamHandler(s)

NextLate ==
    \/ Next
    \/ \E s \in Sessions : LateAudioStream(s)

SpecLate == Init /\ [][NextLate]_vars

\* The server with fs calls that may throw: unlinkSync in the finally block
\* of transcribeAudio, and the three fs calls of generateTTSAudio.
NextFs ==
    \/ Next
    \/ \E r \in rounds : \E text \in Texts :
           FsFaults < MaxFsFaults /\ TranscriptionReturns(r, text, FALSE)
    \/ \E r \in rounds : FsFaults < MaxFsFaults /\ TranscriptionFails(r, FALSE)
    \/ \E r \in rounds : FsFaults < MaxFsFaults /\ ExpertReturns(r, FALSE)
    \/ \E r \in rounds : FsFaults < MaxFsFaults /\ ExpertThrows(r, FALSE)
    \/ \E t \in ttsTasks : \E step \in FsSteps : BodyFsFails(t, step)

SpecFs == Init /\ [][NextFs]_vars

\* An audio-stream event whose payload Buffer.from rejects (a number, null,
\* a plain object, no argument).
Received(what, s) == Entry("recv", what, 0, <<>>, <<>>, s)

\* The malformed payloads received so far.
TotalMalformed ==
    SumOver([s \in Sessions |->
                Cardinality({j \in 1..Len(log[s]) : log[s][j].kind = "recv"})],
            Sessions)

\* The TypeError of Buffer.from leaves the listener; nothing catches it and
\* the process exits: every socket, both maps and every pending call are gone,
\* the files stay.
Crash ==
    /\ status' = [o \in Sessions |-> "crashed"]
    /\ clientAudioBuffers' = EmptyMap
    /\ clientProcessingFlags' = EmptyMap
    /\ rounds' = {}
    /\ ttsTasks' = {}

MalformedAudioStream(s) ==
    /\ status[s] = "connected"
    /\ TotalMalformed < MaxMalformed
    /\ log' = [log EXCEPT ![s] = Append(@, Received("malformed", s))]
    /\ IF IsProcessing(clientProcessingFlags, s)
       THEN UNCHANGED <<status, clientAudioBuffers, clientProcessingFlags, rounds,
                        ttsTasks>>
       ELSE Crash
    /\ UNCHANGED <<expertCall, stream, files, arrived, dropped, dispatched, ended, sinceEnd>>

NextMalformed ==
    \/ Next
    \/ \E s \in Sessions : MalformedAudioStream(s)

SpecMalformed == Init /\ [][NextMalformed]_vars

\* One socket, with every pending speech-to-text and responder call
\* eventually settling and audio-stream events handled as long as the client
\* sends them.
LiveSessions == {"s1"}

RoundStep ==
    \E r \in rounds :
        \/ \E text \in Texts : TranscriptionReturns(r, text, TRUE)
        \/ TranscriptionFails(r, TRUE)
        \/ ExpertReturns(r, TRUE)
        \/ ExpertThrows(r, TRUE)

NextLive ==
    \/ \E s \in LiveSessions : Connect(s)
    \/ \E s \in LiveSessions : Disconnect(s)
    \/ \E s \in LiveSessions : AudioStream(s)
    \/ RoundStep
    \/ \E t \in ttsTasks : SpeechReturns(t)
    \/ \E t \in ttsTasks : SpeechFails(t)
    \/ \E t \in ttsTasks : BodyReturns(t)
    \/ \E t \in ttsTasks : BodyFails(t)

SpecLive ==
    /\ Init
    /\ [][NextLive]_vars
    /\ WF_vars(RoundStep)
    /\ WF_vars(\E s \in LiveSessions : AudioStream(s))

\* ------------------------------------------------------------------ the responder alone
serverVars == <<status, stream, clientAudioBuffers, clientProcessingFlags, rounds,
                ttsTasks, files, arrived, dropped, dispatched, log, ended, sinceEnd>>

\* processQuestion of src/games/munchkin.js: no await, the promise resolves
\* with the keyword answer.
AskKeywords(question) ==
    /\ expertCall.pc = "idle"
    /\ expertCall' = [pc |-> "done", revision |-> "keywords", question |-> question,
                      content |-> <<>>, error |-> "",
                      result |-> processQuestionKeywords(question)]
    /\ UNCHANGED serverVars

\* processQuestion of the generative revision up to
\* await this.openai.chat.completions.create(...)
AskGpt(question) ==
    /\ expertCall.pc = "idle"
    /\ expertCall' = [pc |-> "gpt", revision |-> "generative", question |-> question,
                      content |-> <<>>, error |-> "", result |-> <<>>]
    /\ UNCHANGED serverVars

\* The call resolves with a first choice whose content is a string.
GptReturns(content) ==
    /\ expertCall.pc = "gpt"
    /\ expertCall' = [expertCall EXCEPT !.pc = "done", !.content = content,
                                        !.result = GptText(content)]
    /\ UNCHANGED serverVars

\* The call resolves without a first choice or with content null: reading
\* choices[0].message.content.trim() throws a TypeError inside the try.
GptReturnsNoText ==
    /\ expertCall.pc = "gpt"
    /\ expertCall' = [expertCall EXCEPT !.pc = "done", !.error = "TypeError",
                                        !.result = CatchGpt(expertCall.question)]
    /\ UNCHANGED serverVars

\* The call rejects.
GptFails ==
    /\ expertCall.pc = "gpt"
    /\ expertCall' = [expertCall EXCEPT !.pc = "done", !.error = "rejected",
                                        !.result = CatchGpt(expertCall.question)]
    /\ UNCHANGED serverVars

NextResponder ==
    \/ \E question \in Questions : AskKeywords(question)
    \/ \E question \in Questions : AskGpt(question)
    \/ \E content \in Contents : GptReturns(content)
    \/ GptReturnsNoText
    \/ GptFails

SpecResponder == Init /\ [][NextResponder]_vars

\* ------------------------------------------------------------------ properties
\* The rounds of socket s that are suspended at an await.
RoundsOf(s) == {r \in rounds : r.sid = s}

\* The ids of a list of chunks, in list order.
Ids(list) == [j \in 1..Len(list) |-> list[j].id]

StrictlyIncreasing(q) == \A j \in 1..(Len(q) - 1) : q[j] < q[j + 1]

RECURSIVE Flatten(_)
Flatten(lists) == IF lists = <<>> THEN <<>> ELSE Head(lists) \o Flatten(Tail(lists))

\* A step in which socket s handles one audio-stream event.
Arrives(s) == arrived'[s] = arrived[s] + 1

\* A step in which a batch of socket s is handed to transcribeAudio.
Flushes(s) == Len(dispatched'[s]) = Len(dispatched[s]) + 1

\* C1: at most one transcription round per socket is in flight in every
\* reachable state.
C1_OneRoundInFlight == \A s \in Sessions : Cardinality(RoundsOf(s)) <= 1

\* A round is pending while a further 20 chunks have arrived for its socket.
C1_Witness ==
    \E s \in Sessions : RoundsOf(s) # {} /\ Cardinality(dropped[s]) >= FlushThreshold

\* C2: every flush dispatches exactly the live buffer (the arriving chunk
\* included) and empties the buffer in the same step; the chunks of all batches
\* and of the live buffer are distinct and in arrival order; the file a pending
\* round transcribes is the concatenation of the valid chunks of its own batch.
C2_FlushStep ==
    \A s \in Sessions :
        Flushes(s) =>
            /\ Arrives(s)
            /\ dispatched'[s][Len(dispatched'[s])] =
                   Append(IF MapHas(clientAudioBuffers, s) THEN clientAudioBuffers[s] ELSE <<>>,
                          Chunk(stream[s], arrived'[s]))
            /\ SubSeq(dispatched'[s], 1, Len(dispatched[s])) = dispatched[s]
            /\ MapHas(clientAudioBuffers', s) /\ clientAudioBuffers'[s] = <<>>

C2_Exclusive ==
    \A s \in Sessions :
        /\ StrictlyIncreasing(
               Ids(Flatten(dispatched[s])
                   \o (IF MapHas(clientAudioBuffers, s) THEN clientAudioBuffers[s] ELSE <<>>)))
        /\ \A r \in RoundsOf(s) :
               r.pc = "whisper" =>
                   /\ MapHas(files, AudioPath(s))
                   /\ files[AudioPath(s)] =
                          Ids(SelectSeq(dispatched[s][r.n], LAMBDA c : c.length > 0))

C2_FlushIsExactSnapshot == [][C2_FlushStep]_vars /\ []C2_Exclusive

\* Two batches of one socket with chunks skipped in between.
C2_Witness == \E s \in Sessions : Len(dispatched[s]) = 2 /\ dropped[s] # {}

\* C3: with only non-empty chunks and the flag false at every arrival, n
\* arrivals give floor(n/20) dispatches, batch k is chunks 20(k-1)+1 .. 20k, and
\* the live buffer holds the last n mod 20 chunks.
C3_Hypothesis(s) ==
    /\ dropped[s] = {}
    /\ \A i \in 1..arrived[s] : ChunkLen(stream[s], i) > 0

C3_OneDispatchPer20 ==
    \A s \in Sessions :
        C3_Hypothesis(s) =>
            /\ Len(dispatched[s]) = arrived[s] \div 20
            /\ \A k \in 1..Len(dispatched[s]) :
                   dispatched[s][k] = [j \in 1..20 |-> Chunk(stream[s], 20 * (k - 1) + j)]
            /\ status[s] = "connected" =>
                   /\ MapHas(clientAudioBuffers, s)
                   /\ clientAudioBuffers[s] =
                          [j \in 1..(arrived[s] % 20) |->
                              Chunk(stream[s], 20 * (arrived[s] \div 20) + j)]

\* 41 non-empty chunks, none of them while busy: two batches and one chunk left.
C3_Witness ==
    \E s \in Sessions :
        /\ C3_Hypothesis(s)
        /\ arrived[s] = 41
        /\ status[s] = "connected"
        /\ Len(dispatched[s]) = 2
        /\ Len(clientAudioBuffers[s]) = 1

\* C4: a chunk that arrives while the flag is true leaves the buffer
\* unchanged, starts no dispatch, and is in no batch dispatched afterwards.
C4_DropStep ==
    \A s \in Sessions :
        (Arrives(s) /\ BusyFlag(s)) =>
            /\ clientAudioBuffers' = clientAudioBuffers
            /\ dispatched' = dispatched
            /\ rounds' = rounds

C4_NeverDispatched ==
    \A s \in Sessions :
        \A i \in dropped[s] :
            /\ \A k \in 1..Len(dispatched[s]) :
                   \A j \in 1..Len(dispatched[s][k]) : dispatched[s][k][j].id # i
            /\ MapHas(clientAudioBuffers, s) =>
                   \A j \in 1..Len(clientAudioBuffers[s]) : clientAudioBuffers[s][j].id # i

C4_BusyChunkIsDropped == [][C4_DropStep]_vars /\ []C4_NeverDispatched

\* A chunk arrived while busy and a later batch was dispatched.
C4_Witness ==
    \E s \in Sessions :
        \E i \in dropped[s] :
            /\ Len(dispatched[s]) = 2
            /\ dispatched[s][2][1].id > i

\* C5: after a round of a connected socket has ended, by any outcome, the flag
\* is false, and the 20th chunk that arrives after the end starts a new round.
C5_BusyReleased ==
    \A s \in Sessions :
        (status[s] = "connected" /\ ended[s] >= 1) =>
            /\ sinceEnd[s] < FlushThreshold =>
                   /\ MapHas(clientProcessingFlags, s)
                   /\ clientProcessingFlags[s] = FALSE
                   /\ RoundsOf(s) = {}
                   /\ Len(clientAudioBuffers[s]) = sinceEnd[s]
                   /\ Len(dispatched[s]) = ended[s]
            /\ sinceEnd[s] >= FlushThreshold =>
                   /\ Len(dispatched[s]) = ended[s] + 1
                   /\ RoundsOf(s) # {}

\* The first round ended because the speech-to-text call failed and a second
\* round was dispatched.
C5_Witness ==
    \E s \in Sessions :
        /\ status[s] = "connected"
        /\ Len(dispatched[s]) = 2
        /\ \E j \in 1..Len(log[s]) :
               /\ log[s][j].kind = "end"
               /\ log[s][j].round = 1
               /\ log[s][j].name = "stt_failed"

\* The log lines of round n of socket s.
RoundLog(s, n) == SelectSeq(log[s], LAMBDA e : e.round = n)

CountIn(q, kind, name) ==
    Cardinality({j \in 1..Len(q) : q[j].kind = kind /\ q[j].name = name})

CountKind(q, kind) == Cardinality({j \in 1..Len(q) : q[j].kind = kind})

RoundNumbers(s) == 1..Len(dispatched[s])

\* C6: a socket gets an empty buffer and a false flag at connect, and after
\* its disconnect the registry has no buffer entry and no flag entry for it.
C6_RegistryFollowsLifecycle ==
    \A s \in Sessions :
        /\ (status[s] = "connected" /\ arrived[s] = 0) =>
               /\ MapHas(clientAudioBuffers, s) /\ clientAudioBuffers[s] = <<>>
               /\ MapHas(clientProcessingFlags, s) /\ clientProcessingFlags[s] = FALSE
        /\ status[s] = "disconnected" =>
               /\ ~MapHas(clientAudioBuffers, s)
               /\ ~MapHas(clientProcessingFlags, s)

\* C7: an audio-stream chunk handled after the socket's disconnect changes
\* neither map and starts no dispatch.
C7_LateStep ==
    \A s \in Sessions :
        (status[s] = "disconnected" /\ Arrives(s)) =>
            /\ clientAudioBuffers' = clientAudioBuffers
            /\ clientProcessingFlags' = clientProcessingFlags
            /\ dispatched' = dispatched

C8_SttFailureIsOneError ==
    \A s \in Sessions :
        \A n \in RoundNumbers(s) :
            LET q == RoundLog(s, n) IN
            CountIn(q, "end", "stt_failed") > 0 =>
                /\ CountIn(q, "emit", "error") = 1
                /\ CountKind(q, "emit") = 1
                /\ CountIn(q, "call", "expert") = 0
                /\ CountIn(q, "call", "speech") = 0
                /\ CountKind(q, "end") = 1
                /\ \A r \in rounds : ~(r.sid = s /\ r.n = n)
                /\ \A t \in ttsTasks : ~(t.sid = s /\ t.n = n)

C8_Witness ==
    \E s \in Sessions :
        \E n \in RoundNumbers(s) : CountIn(RoundLog(s, n), "end", "stt_failed") > 0

\* C9: a round whose recognised text is empty or all whitespace emits nothing,
\* calls neither the responder nor speech synthesis, and ends with the flag
\* false.
AllWhiteSpace(text) == \A j \in 1..Len(text) : text[j] = " "

BlankReturn(e) == e.kind = "return" /\ e.name = "whisper" /\ AllWhiteSpace(e.text)

C9_BlankRound ==
    \A s \in Sessions :
        \A n \in RoundNumbers(s) :
            LET q == RoundLog(s, n) IN
            (\E j \in 1..Len(q) : BlankReturn(q[j])) =>
                /\ CountKind(q, "emit") = 0
                /\ CountIn(q, "call", "expert") = 0
                /\ CountIn(q, "call", "speech") = 0
                /\ CountKind(q, "end") = 1
                /\ \A r \in rounds : ~(r.sid = s /\ r.n = n)
                /\ \A t \in ttsTasks : ~(t.sid = s /\ t.n = n)

C9_BlankStep ==
    \A s \in Sessions :
        (/\ Len(log'[s]) > Len(log[s])
         /\ \E j \in (Len(log[s]) + 1)..Len(log'[s]) : BlankReturn(log'[s][j])) =>
            /\ MapHas(clientProcessingFlags', s)
            /\ clientProcessingFlags'[s] = FALSE

C9_BlankTranscriptIsSilent == []C9_BlankRound /\ [][C9_BlankStep]_vars

\* A round ended on the recognised text " ".
C9_Witness ==
    \E s \in Sessions :
        \E j \in 1..Len(log[s]) : BlankReturn(log[s][j]) /\ log[s][j].text = <<" ">>

\* C10 as claimed: a round whose batch has no valid non-empty chunk emits
\* nothing to the socket.
NoValidChunk(batch) == \A j \in 1..Len(batch) : batch[j].length = 0

C10_NoAudioIsSilent ==
    \A s \in Sessions :
        \A n \in RoundNumbers(s) :
            NoValidChunk(dispatched[s][n]) => CountKind(RoundLog(s, n), "emit") = 0

\* C10 as amended: a round whose batch has no valid non-empty chunk makes no
\* speech-to-text call and is over in the step that dispatched it, and it emits
\* exactly one event, the 'error' event 'Transcription failed'.
C10_NoAudioIsOneError ==
    \A s \in Sessions :
        \A n \in RoundNumbers(s) :
            LET q == RoundLog(s, n) IN
            NoValidChunk(dispatched[s][n]) =>
                /\ CountKind(q, "call") = 0
                /\ CountKind(q, "emit") = 1
                /\ \E j \in 1..Len(q) :
                       /\ q[j].kind = "emit"
                       /\ q[j].name = "error"
                       /\ q[j].text = MsgTranscriptionFailed
                /\ CountKind(q, "end") = 1
                /\ \A r \in rounds : ~(r.sid = s /\ r.n = n)

C10_Witness ==
    \E s \in Sessions :
        \E n \in RoundNumbers(s) : NoValidChunk(dispatched[s][n])

\* The live buffer of socket s, empty when the map has no entry.
BufferOf(s) == IF MapHas(clientAudioBuffers, s) THEN clientAudioBuffers[s] ELSE <<>>

\* A step in which an empty chunk arrives for a connected socket whose flag
\* is false.
EmptyArrives(s) ==
    /\ Arrives(s)
    /\ status[s] = "connected"
    /\ ~BusyFlag(s)
    /\ ChunkLen(stream[s], arrived'[s]) = 0

\* C11 as claimed: an empty chunk that arrives for a non-busy socket leaves
\* the buffer length unchanged and does not count towards the threshold.
C11_EmptyChunkDiscarded ==
    [][\A s \in Sessions :
          EmptyArrives(s) =>
              /\ MapHas(clientAudioBuffers', s)
              /\ Len(clientAudioBuffers'[s]) = Len(BufferOf(s))
              /\ ~Flushes(s)]_vars

\* C11 as amended: an empty chunk that arrives for a non-busy socket is
\* appended like any other chunk and counts towards the threshold (it is the
\* last chunk of the buffer, or of the batch when it is the 20th); it is left
\* out only when the batch is transcribed: no byte of the file of a pending
\* round comes from an empty chunk.
C11_EmptyStep ==
    \A s \in Sessions :
        EmptyArrives(s) =>
            LET chunk == Chunk(stream[s], arrived'[s]) IN
            IF Len(BufferOf(s)) = 19
            THEN /\ Flushes(s)
                 /\ dispatched'[s][Len(dispatched'[s])] = Append(BufferOf(s), chunk)
            ELSE /\ ~Flushes(s)
                 /\ MapHas(clientAudioBuffers', s)
                 /\ clientAudioBuffers'[s] = Append(BufferOf(s), chunk)

C11_NoEmptyByte ==
    \A r \in rounds :
        r.pc = "whisper" =>
            /\ MapHas(files, AudioPath(r.sid))
            /\ \A j \in 1..Len(files[AudioPath(r.sid)]) :
                   ChunkLen(stream[r.sid], files[AudioPath(r.sid)][j]) > 0
            /\ \A j \in 1..Len(dispatched[r.sid][r.n]) :
                   LET c == dispatched[r.sid][r.n][j] IN
                   c.length > 0 =>
                       \E x \in 1..Len(files[AudioPath(r.sid)]) :
                           files[AudioPath(r.sid)][x] = c.id

C11_EmptyChunkIsBuffered == [][C11_EmptyStep]_vars /\ []C11_NoEmptyByte

\* A pending round whose batch holds empty chunks.
C11_Witness ==
    \E r \in rounds :
        /\ r.pc = "whisper"
        /\ \E j \in 1..Len(dispatched[r.sid][r.n]) : dispatched[r.sid][r.n][j].length = 0

\* A step in which socket s receives an audio-stream event whose payload
\* cannot be converted to a byte block.
MalformedArrives(s) ==
    /\ Len(log'[s]) = Len(log[s]) + 1
    /\ log'[s][Len(log'[s])].kind = "recv"

\* C12: a malformed audio-stream payload is discarded silently: the buffer and
\* the flag of every socket are as before, and every socket that was connected
\* is still served.
C12_MalformedIsDiscarded ==
    [][\A s \in Sessions :
          MalformedArrives(s) =>
              /\ clientAudioBuffers' = clientAudioBuffers
              /\ clientProcessingFlags' = clientProcessingFlags
              /\ status' = status]_vars

\* The 'ai-response' of round n is among the first j entries of the log of s.
AnswerEmittedBy(s, n, j) ==
    \E i \in 1..j :
        /\ log[s][i].kind = "emit"
        /\ log[s][i].name = "ai-response"
        /\ log[s][i].round = n

\* C13: in every round the speech call and the 'tts-audio' event come after
\* the 'ai-response' of that round; every pending synthesis task belongs to a
\* round whose 'ai-response' is already out; and a round whose responder call
\* is pending can emit its 'ai-response' whatever the synthesis tasks of
\* earlier rounds are doing.
C13_AnswerBeforeSpeech ==
    /\ \A s \in Sessions : \A j \in 1..Len(log[s]) :
           (\/ log[s][j].kind = "call" /\ log[s][j].name = "speech"
            \/ log[s][j].kind = "emit" /\ log[s][j].name = "tts-audio")
               => AnswerEmittedBy(s, log[s][j].round, j - 1)
    /\ \A t \in ttsTasks : AnswerEmittedBy(t.sid, t.n, Len(log[t.sid]))
    /\ \A r \in rounds : r.pc = "expert" => ENABLED ExpertReturns(r, TRUE)

\* The 'ai-response' of the second round of a socket is out while the
\* synthesis of its first round is still pending.
C13_Witness ==
    \E t \in ttsTasks :
        /\ t.n = 1
        /\ AnswerEmittedBy(t.sid, 2, Len(log[t.sid]))

\* The entries the step adds to the log of socket s.
NewEntries(s) == SubSeq(log'[s], Len(log[s]) + 1, Len(log'[s]))

\* A step in which a synthesis task of socket s ends in the catch of
\* generateTTSAudio.
TtsFails(s) ==
    \E j \in 1..Len(NewEntries(s)) :
        /\ NewEntries(s)[j].kind = "console"
        /\ NewEntries(s)[j].name = MsgTtsError

EmitsIn(entries, name) ==
    \E j \in 1..Len(entries) : entries[j].kind = "emit" /\ entries[j].name = name

\* C14 as claimed: a failing synthesis task emits no error event and no
\* 'tts-audio' event and leaves every buffer and flag as it was.
C14_TtsFailureEmitsNothing ==
    [][\A s \in Sessions :
          TtsFails(s) =>
              /\ ~EmitsIn(NewEntries(s), "error")
              /\ ~EmitsIn(NewEntries(s), "tts-audio")
              /\ clientAudioBuffers' = clientAudioBuffers
              /\ clientProcessingFlags' = clientProcessingFlags]_vars

\* C14 as amended: a failing synthesis task emits no error event and leaves
\* every buffer and flag as it was; it emits no 'tts-audio' event unless the
\* step that failed is the deletion of the temporary file, which runs after
\* the emit.
C14_TtsFailureIsSilent ==
    [][\A s \in Sessions :
          TtsFails(s) =>
              /\ ~EmitsIn(NewEntries(s), "error")
              /\ EmitsIn(NewEntries(s), "tts-audio") <=>
                     (\E j \in 1..Len(NewEntries(s)) :
                          /\ NewEntries(s)[j].kind = "console"
                          /\ NewEntries(s)[j].text = ErrUnlink)
              /\ clientAudioBuffers' = clientAudioBuffers
              /\ clientProcessingFlags' = clientProcessingFlags
              /\ rounds' = rounds]_vars

\* Synthesis tasks of one socket have failed at the external call and at the
\* deletion of the file, the latter after its 'tts-audio'.
C14_Witness ==
    \E s \in Sessions :
        /\ \E j \in 1..Len(log[s]) :
               /\ log[s][j].kind = "console"
               /\ log[s][j].name = MsgTtsError
               /\ log[s][j].text = ErrRejected
        /\ \E j \in 2..Len(log[s]) :
               /\ log[s][j].kind = "console"
               /\ log[s][j].name = MsgTtsError
               /\ log[s][j].text = ErrUnlink
               /\ log[s][j - 1].name = "tts-audio"

\* The round of socket s is suspended in the responder call.
InExpert(s) == \E r \in rounds : r.sid = s /\ r.pc = "expert"

\* C15: while a round of a connected socket is suspended, in the
\* speech-to-text call or in the responder call, the flag of the socket is
\* true.
C15_BusyWhileRound ==
    \A r \in rounds : status[r.sid] = "connected" => BusyFlag(r.sid)

\* A chunk that arrives while the responder call is pending is dropped; the
\* step from the speech-to-text call to the responder call keeps the flag;
\* the flag of a connected socket falls only in the step that ends its round;
\* and the step in which the responder resolves releases the flag and leaves
\* the synthesis task of the round pending.
C15_Step ==
    \A s \in Sessions :
        /\ (Arrives(s) /\ InExpert(s) /\ status[s] = "connected") =>
               /\ arrived'[s] \in dropped'[s]
               /\ clientAudioBuffers' = clientAudioBuffers
               /\ ~Flushes(s)
        /\ (BusyFlag(s) /\ ~BusyFlag(s)' /\ status'[s] = "connected") =>
               /\ RoundsOf(s) # {}
               /\ RoundsOf(s)' = {}
               /\ ended'[s] = ended[s] + 1
        /\ \A r \in RoundsOf(s) :
               (r.pc = "expert" /\ EmitsIn(NewEntries(s), "ai-response")) =>
                   /\ ~BusyFlag(s)'
                   /\ RoundsOf(s)' = {}
                   /\ \E t \in ttsTasks' : t.sid = s /\ t.n = r.n /\ t.pc = "speech"

C15_BusyThroughResponder == [][C15_Step]_vars /\ []C15_BusyWhileRound

\* The flag of a connected socket was released while the synthesis of its
\* first round was pending: its second round is in the responder call, with
\* chunks dropped, and that synthesis is pending still.
C15_Witness ==
    \E r \in rounds : \E t \in ttsTasks :
        /\ r.pc = "expert"
        /\ t.sid = r.sid
        /\ t.n < r.n
        /\ status[r.sid] = "connected"
        /\ BusyFlag(r.sid)
        /\ dropped[r.sid] # {}

\* The ids of the chunks socket s has accepted, in the order in which the
\* batches and the buffer hold them.
AcceptedIds(s) == Ids(Flatten(dispatched[s]) \o BufferOf(s))

\* C16: no reachable state lies between the append of the 20th chunk and the
\* flag becoming true: the buffer of a socket never holds 20 chunks, and the
\* chunks a connected socket has accepted are held in arrival order, none
\* missing and none twice.
C16_NoHalfFlush ==
    \A s \in Sessions :
        /\ Len(BufferOf(s)) < FlushThreshold
        /\ status[s] = "connected" =>
               /\ StrictlyIncreasing(AcceptedIds(s))
               /\ {AcceptedIds(s)[j] : j \in 1..Len(AcceptedIds(s))}
                      = (1..arrived[s]) \ dropped[s]

\* The step that dispatches a batch of socket s is the arrival of its 20th
\* chunk, and in that one step the chunk is appended, the batch is the whole
\* buffer, the buffer is reset and the flag is true with the round pending
\* (or the round has already ended, when the batch holds no audio).
C16_FlushIsOneStep ==
    \A s \in Sessions :
        Flushes(s) =>
            /\ Arrives(s)
            /\ Len(BufferOf(s)) = FlushThreshold - 1
            /\ dispatched'[s][Len(dispatched'[s])]
                   = Append(BufferOf(s), Chunk(stream[s], arrived'[s]))
            /\ MapHas(clientAudioBuffers', s) /\ clientAudioBuffers'[s] = <<>>
            /\ status' = status
            /\ \/ BusyFlag(s)' /\ Cardinality(RoundsOf(s)') = 1
               \/ ~BusyFlag(s)' /\ RoundsOf(s)' = {} /\ ended'[s] = ended[s] + 1

C16_FlushIsAtomic == [][C16_FlushIsOneStep]_vars /\ []C16_NoHalfFlush

\* A second batch has been dispatched for a socket after chunks were dropped
\* in between.
C16_Witness ==
    \E s \in Sessions :
        /\ Len(dispatched[s]) = 2
        /\ dropped[s] # {}
        /\ RoundsOf(s) # {}

\* A step that belongs to socket s: the socket connects, disconnects or
\* receives an event, or one of its rounds or synthesis tasks moves on.
ActsFor(s) ==
    \/ arrived'[s] # arrived[s]
    \/ log'[s] # log[s]
    \/ status[s] = "new" /\ status'[s] = "connected"
    \/ status[s] = "connected" /\ status'[s] = "disconnected"
    \/ RoundsOf(s)' # RoundsOf(s) /\ status'[s] # "crashed"
    \/ {t \in ttsTasks : t.sid = s}' # {t \in ttsTasks : t.sid = s}
           /\ status'[s] # "crashed"

\* The registry entries of socket s.
RegistryOf(s) ==
    << MapHas(clientAudioBuffers, s), BufferOf(s),
       MapHas(clientProcessingFlags, s), BusyFlag(s) >>

\* C17: every step leaves the buffer and the flag of every socket it does not
\* belong to unchanged.
C17_OtherSessionsUnchanged ==
    [][\A s \in Sessions : ActsFor(s) \/ RegistryOf(s)' = RegistryOf(s)]_vars

\* C18: a step that leaves a round of a connected socket pending, because
\* its speech-to-text call or its responder call has not returned, leaves the
\* flag true, dispatches nothing for the socket, and drops the chunk if it is
\* an arrival; the only steps after which the flag of a connected socket is
\* no longer true are those in which the call of its round settles.
C18_PendingStep ==
    \A s \in Sessions :
        /\ (RoundsOf(s) # {} /\ RoundsOf(s)' # {} /\ status'[s] = "connected") =>
               /\ BusyFlag(s)'
               /\ ~Flushes(s)
               /\ Len(dispatched'[s]) = Len(dispatched[s])
               /\ Arrives(s) =>
                      /\ arrived'[s] \in dropped'[s]
                      /\ BufferOf(s)' = BufferOf(s)
        /\ (BusyFlag(s) /\ ~BusyFlag(s)' /\ status'[s] = "connected") =>
               \E j \in 1..Len(NewEntries(s)) :
                   /\ NewEntries(s)[j].kind = "end"
                   /\ \E r \in RoundsOf(s) : r.n = NewEntries(s)[j].round

C18_StuckCallKeepsBusy == [][C18_PendingStep]_vars

\* The speech-to-text call of the only round of a connected socket is still
\* pending after more than a further 20 chunks have arrived, all dropped.
C18_Witness ==
    \E r \in rounds :
        /\ r.pc = "whisper"
        /\ r.n = 1
        /\ status[r.sid] = "connected"
        /\ BusyFlag(r.sid)
        /\ Len(dispatched[r.sid]) = 1
        /\ arrived[r.sid] > 2 * FlushThreshold
        /\ dropped[r.sid] = (FlushThreshold + 1)..arrived[r.sid]

\* The bytes transcribeAudio writes for batch n of socket s.
OwnBytes(s, n) == BufferConcat(ValidBuffers(dispatched[s][n]))

\* The same, for a batch that is dispatched in this step.
OwnBytesAfter(s, n) == BufferConcat(ValidBuffers(dispatched'[s][n]))

\* The entry that ends a round of socket s in this step, if there is one.
EndsIn(s) == {j \in 1..Len(NewEntries(s)) : NewEntries(s)[j].kind = "end"}

\* The deletion of the audio file of socket s failed in this step.
CleanupFailedIn(s) ==
    \E j \in 1..Len(NewEntries(s)) :
        /\ NewEntries(s)[j].kind = "console"
        /\ NewEntries(s)[j].name = MsgCleanupFailed

\* The deletion of the audio file failed at the end of round n of socket s.
CleanupFailedAt(s, n) ==
    \E j \in 1..Len(log[s]) :
        /\ log[s][j].kind = "console"
        /\ log[s][j].name = MsgCleanupFailed
        /\ log[s][j].round = n

\* The end of a round of socket s: no file is left unless the deletion
\* failed, and the events of the round and the release of the flag are those
\* of its outcome, whether the deletion failed or not.
C19_EndOfRound(s, e) ==
    /\ ~CleanupFailedIn(s) => ~MapHas(files', AudioPath(s))
    /\ CleanupFailedIn(s) => MapHas(files', AudioPath(s))
    /\ EmitsIn(NewEntries(s), "error") <=> e.name \in {"no_audio", "stt_failed", "expert_failed"}
    /\ EmitsIn(NewEntries(s), "ai-response") <=> e.name = "answered"
    /\ ~BusyFlag(s)'
    /\ RoundsOf(s)' = {}

\* While a round is pending, the audio file of its socket holds the bytes of
\* its own batch.
C19_PendingFileIsOwn ==
    \A r \in rounds :
        /\ MapHas(files, AudioPath(r.sid))
        /\ files[AudioPath(r.sid)] = OwnBytes(r.sid, r.n)

C19_DeletesOwnOrLeftover(s, e) ==
    (MapHas(files, AudioPath(s)) /\ ~MapHas(files', AudioPath(s))) =>
        \/ files[AudioPath(s)] = OwnBytesAfter(s, e.round)
        \/ /\ e.name = "no_audio"
           /\ \E n \in 1..(e.round - 1) :
                  /\ CleanupFailedAt(s, n)
                  /\ files[AudioPath(s)] = OwnBytes(s, n)

C19_FileOnDisk ==
    \A s \in Sessions :
        MapHas(files, AudioPath(s)) =>
            \/ \E r \in RoundsOf(s) : files[AudioPath(s)] = OwnBytes(s, r.n)
            \/ \E n \in 1..Len(dispatched[s]) :
                   CleanupFailedAt(s, n) /\ files[AudioPath(s)] = OwnBytes(s, n)

C20_NoTtsFileLeft == \A s \in Sessions : ~MapHas(files, TtsPath(s))

\* A call of processQuestion of the generative revision has returned.
GptDone == expertCall.pc = "done" /\ expertCall.revision = "generative"

AllWhite(t) == \A j \in 1..Len(t) : t[j] \in {" ", "\t", "\n"}

\* t is u with white space removed from both ends, and from the ends only.
Stripped(t, u) ==
    /\ \E i \in 0..Len(u) : \E j \in i..Len(u) :
           /\ t = SubSeq(u, i + 1, j)
           /\ AllWhite(SubSeq(u, 1, i))
           /\ AllWhite(SubSeq(u, j + 1, Len(u)))
    /\ t # <<>> => ~AllWhite(<<t[1]>>) /\ ~AllWhite(<<t[Len(t)]>>)

\* C21 as claimed: the result of a call that has returned is the output of
\* the text-generation call when that call succeeded, and the keyword
\* fallback answer for the same question when it failed.
C21_ResultIsOutputOrFallback ==
    GptDone =>
        IF expertCall.error = ""
        THEN expertCall.result = expertCall.content
        ELSE expertCall.result = processQuestionFallback(expertCall.question)

\* C21 as amended: the result is the text of the first choice with the white
\* space at its ends removed when the call resolved with such a text, and the
\* keyword fallback answer for the same question when the call rejected or
\* its response held no text.
C21_ResultIsTrimmedOrFallback ==
    GptDone =>
        IF expertCall.error = ""
        THEN Stripped(expertCall.result, expertCall.content)
        ELSE expertCall.result = processQuestionFallback(expertCall.question)

\* Calls have returned a text that lost white space, and a keyword answer
\* after a response without text.
C21_Witness ==
    /\ GptDone
    /\ \/ expertCall.error = "" /\ expertCall.result # expertCall.content
             /\ expertCall.result # <<>>
       \/ expertCall.error = "TypeError"
             /\ expertCall.result = explainCombatRules

\* The lower-cased question contains one of the keywords.
Mentions(question, keywords) ==
    \E w \in keywords : Includes(ToLowerCase(question), w)

CurseWords == {KwCurse}
CombatWords == {KwCombat, KwFight, KwBattle}
LevelWords == {KwLevel, KwWin}
SetupWords == {KwSetup, KwStart}

\* A call has returned an answer of the keyword chain: a call of the
\* keyword-only module, or a call of the generative revision that fell back.
KeywordAnswer ==
    /\ expertCall.pc = "done"
    /\ expertCall.revision = "keywords" \/ expertCall.error # ""

\* C22: the keyword answer is the curse explanation if the question mentions
\* 'curse'; otherwise the combat explanation if it mentions 'combat', 'fight'
\* or 'battle'; otherwise the levelling explanation if it mentions 'level' or
\* 'win'; otherwise the setup explanation if it mentions 'setup' or 'start';
\* letter case does not matter.
C22_PriorityChain ==
    KeywordAnswer =>
        LET q == expertCall.question
            a == expertCall.result
        IN
        /\ Mentions(q, CurseWords) => a = explainCurseRules
        /\ (~Mentions(q, CurseWords) /\ Mentions(q, CombatWords)) => a = explainCombatRules
        /\ (~Mentions(q, CurseWords \cup CombatWords) /\ Mentions(q, LevelWords))
               => a = explainLevelingAndWinning
        /\ (~Mentions(q, CurseWords \cup CombatWords \cup LevelWords)
               /\ Mentions(q, SetupWords))
               => a = explainGameSetup
        /\ ~Mentions(q, CurseWords \cup CombatWords \cup LevelWords \cup SetupWords)
               => a \notin {explainCurseRules, explainCombatRules,
                            explainLevelingAndWinning, explainGameSetup}

\* The generative revision fell back on a question that names a combat
\* keyword in capitals before a curse keyword, and answered with the curse
\* explanation.
C22_Witness ==
    /\ KeywordAnswer
    /\ expertCall.revision = "generative"
    /\ expertCall.question = <<"F", "I", "G", "H", "T", " ", "C", "u", "r", "s", "e">>
    /\ expertCall.result = explainCurseRules

\* C23: for a question that mentions no keyword, the keyword answer is the
\* default message with the question inside it, character for character as
\* it was asked.
C23_DefaultQuotesQuestion ==
    (KeywordAnswer /\ ~Mentions(expertCall.question,
                                CurseWords \cup CombatWords \cup LevelWords \cup SetupWords)) =>
        LET q == expertCall.question
            a == expertCall.result
        IN
        /\ Len(a) = Len(q) + 2
        /\ a[1] = "I heard your question about \""
        /\ SubSeq(a, 2, Len(q) + 1) = q
        /\ a[Len(a)] =
               "\" but I'm not sure how to answer that specific Munchkin rule question yet. ..."

\* The fallback has answered a question with a capital letter that mentions
\* no keyword.
C23_Witness ==
    /\ KeywordAnswer
    /\ expertCall.error = "rejected"
    /\ expertCall.question = <<"W", "h", "o", "?">>
    /\ Len(expertCall.result) = 6

\* A step in which socket s disconnects.
Disconnects(s) == status[s] = "connected" /\ status'[s] = "disconnected"

\* The chunks of a batch list.
ChunksIn(batches) == {Flatten(batches)[j] : j \in 1..Len(Flatten(batches))}

\* C24: the step in which a socket disconnects dispatches nothing and starts
\* no round, its buffered chunks are in no batch and the buffer is gone; and
\* no batch is dispatched for a socket that has disconnected.
C24_DisconnectStep ==
    \A s \in Sessions :
        /\ Disconnects(s) =>
               /\ dispatched' = dispatched
               /\ rounds' = rounds
               /\ log' = log
               /\ ~MapHas(clientAudioBuffers', s)
               /\ \A j \in 1..Len(BufferOf(s)) :
                      BufferOf(s)[j] \notin ChunksIn(dispatched'[s])
        /\ status[s] = "disconnected" => dispatched'[s] = dispatched[s]

C24_DisconnectDiscards == [][C24_DisconnectStep]_vars

\* A socket has disconnected after its first round with accepted chunks in
\* its buffer, which are in no batch.
C24_Witness ==
    \E s \in Sessions :
        /\ status[s] = "disconnected"
        /\ Len(dispatched[s]) = 1
        /\ ended[s] = 1
        /\ \E i \in 1..arrived[s] :
               /\ i \notin dropped[s]
               /\ \A c \in ChunksIn(dispatched[s]) : c.id # i

\* The positions of the entries of one kind and name in a round log.
Where(q, kind, name) == {j \in 1..Len(q) : q[j].kind = kind /\ q[j].name = name}

\* C25: a round that ended answered has exactly one 'transcription' emit and,
\* after it, exactly one 'ai-response' emit; both carry the text the
\* speech-to-text call returned, as it was returned, and the answer is the
\* responder's answer to that text; a socket that is still connected has
\* received both. At no time is an 'ai-response' in the log without the
\* 'transcription' of its round before it.
C25_TranscriptThenAnswer ==
    \A s \in Sessions :
        /\ \A n \in RoundNumbers(s) :
               LET q == RoundLog(s, n) IN
               Where(q, "end", "answered") # {} =>
                   /\ Cardinality(Where(q, "emit", "transcription")) = 1
                   /\ Cardinality(Where(q, "emit", "ai-response")) = 1
                   /\ Cardinality(Where(q, "return", "whisper")) = 1
                   /\ \A i \in Where(q, "emit", "transcription") :
                      \A j \in Where(q, "emit", "ai-response") :
                      \A k \in Where(q, "return", "whisper") :
                          /\ k < i /\ i < j
                          /\ q[i].text = q[k].text
                          /\ q[j].text = q[k].text
                          /\ q[j].answer = processQuestionKeywords(q[k].text)
                          /\ q[j].live => q[i].live
        /\ \A j \in 1..Len(log[s]) :
               (log[s][j].kind = "emit" /\ log[s][j].name = "ai-response") =>
                   \E i \in 1..(j - 1) :
                       /\ log[s][i].kind = "emit"
                       /\ log[s][i].name = "transcription"
                       /\ log[s][i].round = log[s][j].round

\* A connected socket has received the answer to a transcript that begins
\* with a blank.
C25_Witness ==
    \E s \in Sessions :
        \E j \in 1..Len(log[s]) :
            /\ log[s][j].kind = "emit"
            /\ log[s][j].name = "ai-response"
            /\ log[s][j].live
            /\ log[s][j].text = <<" ", "W", "i", "n">>
            /\ log[s][j].answer = explainLevelingAndWinning

\* C26: in every reachable state the buffer of a connected socket holds
\* between 0 and 19 chunks and is empty while the flag is true, and every
\* dispatched batch holds exactly 20 chunks.
C26_BufferBounds ==
    \A s \in Sessions :
        /\ status[s] = "connected" =>
               /\ MapHas(clientAudioBuffers, s)
               /\ Len(clientAudioBuffers[s]) \in 0..(FlushThreshold - 1)
               /\ BusyFlag(s) => clientAudioBuffers[s] = <<>>
        /\ \A n \in 1..Len(dispatched[s]) : Len(dispatched[s][n]) = FlushThreshold

\* The flag of a connected socket was released after chunks were dropped: its
\* buffer is empty; and another connected socket holds 19 chunks.
C26_Witness ==
    \E s \in Sessions : \E o \in Sessions :
        /\ status[s] = "connected"
        /\ ended[s] = 1
        /\ ~BusyFlag(s)
        /\ dropped[s] # {}
        /\ BufferOf(s) = <<>>
        /\ status[o] = "connected"
        /\ Len(BufferOf(o)) = FlushThreshold - 1

\* The chunks socket s still needs for a flush can arrive and the batch can
\* be dispatched within the bounds of the model.
RoomForFlush(s) ==
    /\ TotalArrived + FlushThreshold - Len(BufferOf(s)) <= MaxArrive
    /\ TotalDispatched < MaxRounds

\* C27: when every pending speech-to-text and responder call eventually
\* settles, every round eventually ends and a true flag eventually is not
\* true any more; and when audio-stream events keep being handled, a
\* connected socket whose flag is false gets a further batch dispatched,
\* unless it disconnects.
C27_RoundsEndAndResume ==
    \A s \in LiveSessions :
        /\ (RoundsOf(s) # {}) ~> (RoundsOf(s) = {})
        /\ BusyFlag(s) ~> ~BusyFlag(s)
        /\ \A k \in 0..MaxRounds :
               (/\ status[s] = "connected"
                /\ ~BusyFlag(s)
                /\ Len(dispatched[s]) = k
                /\ RoomForFlush(s))
                   ~> (Len(dispatched[s]) > k \/ status[s] # "connected")

\* A second batch was dispatched for a socket after its first round ended
\* and its flag was released.
C27_Witness ==
    \E s \in LiveSessions :
        /\ status[s] = "connected"
        /\ Len(dispatched[s]) = 2
        /\ ended[s] >= 1
        /\ arrived[s] = 2 * FlushThreshold

\* C28: in the log of a socket no 'tts-audio' of a round comes after the
\* 'ai-response' or the 'tts-audio' of a later round.
C28_TtsInRoundOrder ==
    \A s \in Sessions :
        \A i \in 1..Len(log[s]) : \A j \in (i + 1)..Len(log[s]) :
            (/\ log[s][i].kind = "emit"
             /\ log[s][i].name \in {"ai-response", "tts-audio"}
             /\ log[s][j].kind = "emit"
             /\ log[s][j].name = "tts-audio")
                => log[s][i].round <= log[s][j].round

\* The 'error' emits of a round log that carry the message msg.
ErrorsWith(q, msg) == {j \in Where(q, "emit", "error") : q[j].text = msg}

\* C29: a round emits at most one 'error'; a round whose responder call
\* failed emits 'Failed to process your question' once, no 'Transcription
\* failed', no 'ai-response', and starts no synthesis; a round that emitted a
\* 'transcription' never emits 'Transcription failed'.
C29_OneErrorPerRound ==
    \A s \in Sessions :
        \A n \in RoundNumbers(s) :
            LET q == RoundLog(s, n) IN
            /\ Cardinality(Where(q, "emit", "error")) <= 1
            /\ Where(q, "end", "expert_failed") # {} =>
                   /\ Cardinality(ErrorsWith(q, MsgQuestionFailed)) = 1
                   /\ ErrorsWith(q, MsgTranscriptionFailed) = {}
                   /\ Where(q, "emit", "ai-response") = {}
                   /\ Where(q, "call", "speech") = {}
                   /\ \A t \in ttsTasks : ~(t.sid = s /\ t.n = n)
            /\ Where(q, "emit", "transcription") # {} =>
                   ErrorsWith(q, MsgTranscriptionFailed) = {}

\* The responder call of a round of a connected socket has failed after its
\* 'transcription' was emitted.
C29_Witness ==
    \E s \in Sessions :
        \E n \in RoundNumbers(s) :
            LET q == RoundLog(s, n) IN
            /\ Where(q, "end", "expert_failed") # {}
            /\ Where(q, "emit", "transcription") # {}
            /\ \A j \in Where(q, "emit", "error") : q[j].live

\* C30: no external call is started and no event is emitted for a socket
\* that has disconnected: every call and emit in the log of a socket was made
\* while the socket was connected.
C30_QuietAfterDisconnect ==
    \A s \in Sessions :
        \A j \in 1..Len(log[s]) :
            log[s][j].kind \in {"call", "emit"} => log[s][j].live

\* A call of the keyword-only module (src/games/munchkin.js) has resolved.
KeywordsDone == expertCall.pc = "done" /\ expertCall.revision = "keywords"

\* A call of the generative revision has ended in its catch: the external
\* call rejected, or its response carried no text.
GptFailedDone == GptDone /\ expertCall.error # ""

\* C31: the two revisions of the responder agree on the keyword path: the
\* answer of the keyword-only module to a question is the text
\* processQuestionFallback of the generative revision returns for it, and the
\* answer of the generative revision whose external call has failed is the
\* answer of the keyword-only module to the same question.
C31_RevisionsAgree ==
    /\ KeywordsDone =>
           expertCall.result = processQuestionFallback(expertCall.question)
    /\ GptFailedDone =>
           expertCall.result = processQuestionKeywords(expertCall.question)

\* The external call of the generative revision has rejected for a question
\* that names a battle and a level, and the answer is a keyword answer, not
\* the default message.
C31_Witness ==
    /\ GptFailedDone
    /\ expertCall.error = "rejected"
    /\ Includes(ToLowerCase(expertCall.question), KwBattle)
    /\ Includes(ToLowerCase(expertCall.question), KwLevel)
    /\ expertCall.result = explainCombatRules

====
